---- MODULE Spec2Model ----
(***************************************************************************)
(* Model of the laundry client-management record store (src/app.py).       *)
(*                                                                         *)
(* The workbook cms_data.xlsx holds four sheets: clients, orders, payments *)
(* and costs.  Every Streamlit script run loads the sheets its page needs, *)
(* then runs at most one button/form handler, which saves the sheets it    *)
(* changed.  Spec models the runs one at a time (each run to completion).  *)
(* SpecSaves splits the Delete Client handler into its saves, with a run    *)
(* that can be cut short between two of them.  SpecSessions runs the       *)
(* Orders page in two sessions whose loads and saves interleave.           *)
(* SpecFee and SpecCal exercise the pure computations calculate_fee and    *)
(* the calendar colour logic on enumerated inputs.                         *)
(*                                                                         *)
(* Numbers entered through st.number_input are floats in the program; the  *)
(* model uses naturals.  The free-text and date columns that no handler    *)
(* and no report of this model reads (phone, email, address, notes,        *)
(* pickup_date, payment_date, ...) are left out of the rows.               *)
(***************************************************************************)
EXTENDS Integers, Sequences, FiniteSets, TLC

VARIABLES
    clients,    \* sheet "clients"  : sequence of rows
    orders,     \* sheet "orders"   : sequence of rows
    payments,   \* sheet "payments" : sequence of rows
    costs,      \* sheet "costs"    : sequence of rows
    last,       \* history: the handler the last run executed, its input and
                \*          the number of rows it removed from each sheet
    issued,     \* history: per sheet, the ids handed out by next_id, in order
    pc,         \* per session: where its script run stands ("idle" between runs)
    page,       \* per session: the local variables of its script run
    service,    \* calculate_fee input  (SpecFee)
    weight,     \* calculate_fee input  (SpecFee)
    delivery,   \* calculate_fee input  (SpecFee)
    total,      \* calculate_fee result (SpecFee)
    this_date,  \* calendar cell date   (SpecCal)
    today,      \* date.today()         (SpecCal)
    color       \* calendar cell colour (SpecCal)

vars == <<clients, orders, payments, costs, last, issued, pc, page,
          service, weight, delivery, total, this_date, today, color>>

storeVars == <<clients, orders, payments, costs, last, issued>>
feeVars   == <<service, weight, delivery, total>>
calVars   == <<this_date, today, color>>
runVars   == <<pc, page>>

-----------------------------------------------------------------------------
(* Bounds of the model *)

\* number of rows ever added, over the four sheets together
MaxAdds        == 5
\* number of orders in the sheet the calendar reads
MaxCalOrders   == 3
\* calendar dates are 1..MaxDate
MaxDate        == 2
\* weights and delivery fees given to calculate_fee are 0..MaxAmount
MaxAmount      == 3
\* number of orders added while two sessions interleave
MaxSessionAdds == 2

-----------------------------------------------------------------------------
(* Values *)

\* Python None / pandas NaN in a numeric column (ids start at 1, amounts at 0)
None == -1

\* an unmatched left-merge leaves full_name NaN
NaN == "NaN"

StatusOptions == <<"Scheduled Pickup", "Processing", "Ready", "Completed">>
Statuses == {StatusOptions[i] : i \in DOMAIN StatusOptions}

ServiceOptions == <<"WDF (Wash, Dry, Fold)", "WDI (Wash, Dry, Iron)", "Iron Only", "Bedding">>

-----------------------------------------------------------------------------
(* Helpers of the record store *)

Max(S) == CHOOSE m \in S : \A x \in S : x <= m

Column(df, col) == [i \in DOMAIN df |-> df[i][col]]

ColumnSet(df, col) == {df[i][col] : i \in DOMAIN df}

RECURSIVE SumSeq(_)
SumSeq(s) == IF s = <<>> THEN 0 ELSE Head(s) + SumSeq(Tail(s))

\* df[col].sum()
ColumnSum(df, col) == SumSeq(Column(df, col))

\* df.empty
Empty(df) == df = <<>>

\* variant: the id is the row count plus one
next_id_by_count(df, id_col) == Len(df) + 1

\* variant: the increment is missing
next_id_no_increment(df, id_col) ==
    IF ~Empty(df) THEN Max(ColumnSet(df, id_col)) ELSE 1

next_id(df, id_col) ==
    IF ~Empty(df) THEN Max(ColumnSet(df, id_col)) + 1 ELSE 1

\* add_row: load the sheet, append the row, save the sheet
add_row(df, new_row) == Append(df, new_row)

-----------------------------------------------------------------------------
(* Fee calculator *)

rates == << [k |-> "WDF", v |-> 500], [k |-> "WDI", v |-> 700],
            [k |-> "Iron Only", v |-> 200], [k |-> "Bedding", v |-> 1200] >>

\* variant: the service must equal the key
startswith_whole(s, k) == s = k

\* str.startswith
startswith(s, k) == Len(s) >= Len(k) /\ SubSeq(s, 1, Len(k)) = k

\* Python `x or 0`: None and 0 are both falsy
or0(x) == IF x = None \/ x = 0 THEN 0 ELSE x

\* next((v for k,v in rates.items() if service.startswith(k)), 500)
rate_of(svc) ==
    LET hits == SelectSeq(rates, LAMBDA e : startswith(svc, e.k))
    IN  IF hits # <<>> THEN Head(hits).v ELSE 500

calculate_fee(svc, w, d) == rate_of(svc) * or0(w) + or0(d)

-----------------------------------------------------------------------------
(* Record store: what each handler computes from the sheets it loaded *)

Store == [clients |-> clients, orders |-> orders, payments |-> payments, costs |-> costs]

\* df[df[col] == val][id_col].values[0]  (first matching row)
FirstWith(df, col, val, id_col) ==
    Head(SelectSeq(df, LAMBDA r : r[col] = val))[id_col]

\* orders.merge(clients[["client_id","full_name"]], on="client_id", how="left")
RECURSIVE Flatten(_)
Flatten(ss) == IF ss = <<>> THEN <<>> ELSE Head(ss) \o Flatten(Tail(ss))

merged_orders(ords, clis) ==
    LET matches(o) == SelectSeq(clis, LAMBDA c : c.client_id = o.client_id)
        rowsFor(o) ==
            IF matches(o) = <<>>
            THEN << o @@ [full_name |-> NaN] >>
            ELSE [j \in DOMAIN matches(o) |-> o @@ [full_name |-> matches(o)[j].full_name]]
    IN  Flatten([i \in DOMAIN ords |-> rowsFor(ords[i])])

\* Delete Client: df = df[df["client_id"] != client_id]
delete_client_clients(df, client_id) ==
    SelectSeq(df, LAMBDA r : r.client_id # client_id)

\* variant: the orders are filtered on order_id instead of client_id
delete_client_orders_by_oid(ords, client_id) ==
    IF ~Empty(ords)
    THEN SelectSeq(ords, LAMBDA r : r.order_id # client_id)
    ELSE ords

\* Delete Client: orders = orders[orders["client_id"] != client_id], when orders is not empty
delete_client_orders(ords, client_id) ==
    IF ~Empty(ords)
    THEN SelectSeq(ords, LAMBDA r : r.client_id # client_id)
    ELSE ords

\* variant: the payments are matched against the client id instead of the ids of its orders
delete_client_payments_by_client(ords, pays, client_id) ==
    IF ~Empty(ords) /\ ~Empty(pays)
    THEN SelectSeq(pays, LAMBDA p : p.order_id # client_id)
    ELSE pays

\* Delete Client: payments = payments[~payments["order_id"].isin(client_orders["order_id"])],
\* when orders, payments and client_orders are all not empty
delete_client_payments(ords, pays, client_id) ==
    LET client_orders == SelectSeq(ords, LAMBDA r : r.client_id = client_id)
    IN  IF ~Empty(ords) /\ ~Empty(pays) /\ ~Empty(client_orders)
        THEN SelectSeq(pays, LAMBDA p : p.order_id \notin ColumnSet(client_orders, "order_id"))
        ELSE pays

\* variant: the row mask is missing, every row gets the new status
update_status_all_rows(ords, selected_order_id, new_status) ==
    [i \in DOMAIN ords |-> [ords[i] EXCEPT !.status = new_status]]

\* Update Status: orders.loc[orders["order_id"] == selected_order_id, "status"] = new_status
update_status(ords, selected_order_id, new_status) ==
    [i \in DOMAIN ords |->
        IF ords[i].order_id = selected_order_id
        THEN [ords[i] EXCEPT !.status = new_status]
        ELSE ords[i]]

\* Delete Selected Order: orders = orders[orders["order_id"] != del_order_id]
delete_order_orders(ords, del_order_id) ==
    SelectSeq(ords, LAMBDA r : r.order_id # del_order_id)

\* variant: the payments are filtered on payment_id instead of order_id
delete_order_payments_by_pid(pays, del_order_id) ==
    SelectSeq(pays, LAMBDA p : p.payment_id # del_order_id)

\* Delete Selected Order: payments = payments[payments["order_id"] != del_order_id]
delete_order_payments(pays, del_order_id) ==
    SelectSeq(pays, LAMBDA p : p.order_id # del_order_id)

\* variant: the payments are filtered on order_id instead of payment_id
delete_payment_by_order(pays, payment_to_delete) ==
    SelectSeq(pays, LAMBDA p : p.order_id # payment_to_delete)

\* Delete Payment: payments = payments[payments["payment_id"] != payment_to_delete]
delete_payment(pays, payment_to_delete) ==
    SelectSeq(pays, LAMBDA p : p.payment_id # payment_to_delete)

\* st.selectbox("Order ID", orders["order_id"] if not orders.empty else []):
\* the options offered; an empty option list yields None
order_choices(ords) ==
    IF ~Empty(ords) THEN ColumnSet(ords, "order_id") ELSE {None}

-----------------------------------------------------------------------------
(* Inputs the forms are given *)

Names         == {"Ama", "Kofi"}                       \* st.text_input("Full Name")
OrderServices == {ServiceOptions[1]}                    \* st.selectbox("Service", ...)
OrderWeights  == {10}                                  \* st.number_input("Weight (kg)", min_value=0.0)
OrderFees     == {0}                                   \* st.number_input("Delivery Fee", min_value=0.0)
OrderDues     == {1}                                   \* st.date_input("Due Date")
PaidAmounts   == {2000}                                \* st.number_input("Amount", min_value=0.0)
OrderStatuses == {"Processing"}                        \* st.selectbox("Status", ...)
NewStatuses   == {"Processing", "Completed"}           \* st.selectbox("New Status", ...)
CostAmounts   == {1500}                                \* st.number_input("Amount", min_value=0.0)

\* the browser sessions, each with its own script runs
Sessions == {"A", "B"}

NoPage == [client_id |-> None, order_id |-> None,
           clients |-> <<>>, orders |-> <<>>, payments |-> <<>>]

NoRuns  == [s \in Sessions |-> "idle"]
NoPages == [s \in Sessions |-> NoPage]

NoSheets == [clients |-> <<>>, orders |-> <<>>, payments |-> <<>>, costs |-> <<>>]

Added == Len(issued.clients) + Len(issued.orders) + Len(issued.payments) + Len(issued.costs)

NoneCut == [clients |-> 0, orders |-> 0, payments |-> 0]

Ran(op, id, val, cut) == [op |-> op, id |-> id, val |-> val, cut |-> cut]

-----------------------------------------------------------------------------
(* One script run per action: page load, then the handler that was clicked *)

\* init_excel: the workbook is created with four empty sheets
Init ==
    /\ clients = <<>> /\ orders = <<>> /\ payments = <<>> /\ costs = <<>>
    /\ last = Ran("init_excel", None, "", NoneCut)
    /\ issued = NoSheets
    /\ service = "" /\ weight = None /\ delivery = None /\ total = None
    /\ this_date = 1 /\ today = 1 /\ color = ""
    /\ pc = NoRuns /\ page = NoPages

\* page "Clients", form add_client
AddClient(name) ==
    /\ Added < MaxAdds
    /\ LET df  == clients
           cid == next_id(df, "client_id")
       IN  /\ clients' = add_row(clients, [client_id |-> cid, full_name |-> name])
           /\ issued' = [issued EXCEPT !.clients = Append(@, cid)]
           /\ last' = Ran("AddClient", cid, name, NoneCut)
    /\ UNCHANGED <<orders, payments, costs>>
    /\ UNCHANGED <<feeVars, calVars, runVars>>

\* page "Clients", button "Delete Client" with the confirmation ticked
DeleteClient(client_to_delete) ==
    /\ ~Empty(clients)
    /\ client_to_delete \in ColumnSet(clients, "full_name")
    /\ LET client_id == FirstWith(clients, "full_name", client_to_delete, "client_id")
       IN  /\ clients' = delete_client_clients(clients, client_id)
           /\ orders' = delete_client_orders(orders, client_id)
           /\ payments' = delete_client_payments(orders, payments, client_id)
           /\ last' = Ran("DeleteClient", client_id, client_to_delete,
                          [clients  |-> Len(clients) - Len(clients'),
                           orders   |-> Len(orders) - Len(orders'),
                           payments |-> Len(payments) - Len(payments')])
    /\ UNCHANGED <<costs, issued>>
    /\ UNCHANGED <<feeVars, calVars, runVars>>

\* page "Orders", form add_order
AddOrder(client, svc, w, due, d, status) ==
    /\ Added < MaxAdds
    /\ client \in (IF ~Empty(clients) THEN ColumnSet(clients, "full_name") ELSE {NaN})
    /\ IF Empty(clients)
       THEN \* st.error("Please add clients first.")
            /\ last' = Ran("AddOrder: no clients", None, "", NoneCut)
            /\ UNCHANGED <<orders, issued>>
       ELSE LET cid == FirstWith(clients, "full_name", client, "client_id")
                oid == next_id(orders, "order_id")
            IN  /\ orders' = add_row(orders,
                       [order_id |-> oid, client_id |-> cid, service_type |-> svc,
                        weight_count |-> w, due_date |-> due, status |-> status,
                        delivery_fee |-> d, total_fee |-> calculate_fee(svc, w, d)])
                /\ issued' = [issued EXCEPT !.orders = Append(@, oid)]
                /\ last' = Ran("AddOrder", oid, client, NoneCut)
    /\ UNCHANGED <<clients, payments, costs>>
    /\ UNCHANGED <<feeVars, calVars, runVars>>

\* the orders the two select boxes of the Orders page let the user pick:
\* a client name of merged_orders, then one of the orders merged with it
pickable_orders(ords, clis) ==
    LET m == merged_orders(ords, clis)
    IN  {m[i].order_id : i \in {j \in DOMAIN m : m[j].full_name # NaN}}

\* page "Orders", button "Update Status"
UpdateStatus(selected_order_id, new_status) ==
    /\ ~Empty(orders) /\ ~Empty(clients)
    /\ selected_order_id \in pickable_orders(orders, clients)
    /\ orders' = update_status(orders, selected_order_id, new_status)
    /\ last' = Ran("UpdateStatus", selected_order_id, new_status, NoneCut)
    /\ UNCHANGED <<clients, payments, costs, issued>>
    /\ UNCHANGED <<feeVars, calVars, runVars>>

\* page "Orders", button "Delete Selected Order" with the confirmation ticked
DeleteOrder(del_order_id) ==
    /\ ~Empty(orders) /\ ~Empty(clients)
    /\ del_order_id \in pickable_orders(orders, clients)
    /\ orders' = delete_order_orders(orders, del_order_id)
    /\ payments' = delete_order_payments(payments, del_order_id)
    /\ last' = Ran("DeleteOrder", del_order_id, "",
                   [clients  |-> 0,
                    orders   |-> Len(orders) - Len(orders'),
                    payments |-> Len(payments) - Len(payments')])
    /\ UNCHANGED <<clients, costs, issued>>
    /\ UNCHANGED <<feeVars, calVars, runVars>>

\* page "Payments & Costs", form add_payment
AddPayment(order_choice, amt) ==
    /\ Added < MaxAdds
    /\ order_choice \in order_choices(orders)
    /\ LET pid == next_id(payments, "payment_id")
       IN  /\ payments' = add_row(payments,
                  [payment_id |-> pid, order_id |-> order_choice, amount_paid |-> amt])
           /\ issued' = [issued EXCEPT !.payments = Append(@, pid)]
           /\ last' = Ran("AddPayment", pid, "", NoneCut)
    /\ UNCHANGED <<clients, orders, costs>>
    /\ UNCHANGED <<feeVars, calVars, runVars>>

\* page "Payments & Costs", button "Delete Payment" with the confirmation ticked
DeletePayment(payment_to_delete) ==
    /\ ~Empty(payments)
    /\ payment_to_delete \in ColumnSet(payments, "payment_id")
    /\ payments' = delete_payment(payments, payment_to_delete)
    /\ last' = Ran("DeletePayment", payment_to_delete, "",
                   [clients |-> 0, orders |-> 0, payments |-> Len(payments) - Len(payments')])
    /\ UNCHANGED <<clients, orders, costs, issued>>
    /\ UNCHANGED <<feeVars, calVars, runVars>>

\* page "Payments & Costs", form add_cost
AddCost(amt) ==
    /\ Added < MaxAdds
    /\ LET eid == next_id(costs, "expense_id")
       IN  /\ costs' = add_row(costs, [expense_id |-> eid, amount |-> amt])
           /\ issued' = [issued EXCEPT !.costs = Append(@, eid)]
           /\ last' = Ran("AddCost", eid, "", NoneCut)
    /\ UNCHANGED <<clients, orders, payments>>
    /\ UNCHANGED <<feeVars, calVars, runVars>>

Next ==
    \/ \E name \in Names : AddClient(name)
    \/ \E name \in Names : DeleteClient(name)
    \/ \E client \in Names \cup {NaN}, svc \in OrderServices, w \in OrderWeights,
          due \in OrderDues, d \in OrderFees, status \in OrderStatuses :
            AddOrder(client, svc, w, due, d, status)
    \/ \E o \in 1..MaxAdds, s \in NewStatuses : UpdateStatus(o, s)
    \/ \E o \in 1..MaxAdds : DeleteOrder(o)
    \/ \E o \in (1..MaxAdds) \cup {None}, amt \in PaidAmounts : AddPayment(o, amt)
    \/ \E p \in 1..MaxAdds : DeletePayment(p)
    \/ \E amt \in CostAmounts : AddCost(amt)

Spec == Init /\ [][Next]_vars

-----------------------------------------------------------------------------
(* Reports of the Overview page *)

total_revenue(pays) == IF ~Empty(pays) THEN ColumnSum(pays, "amount_paid") ELSE 0

total_costs(csts) == IF ~Empty(csts) THEN ColumnSum(csts, "amount") ELSE 0

total_profit(pays, csts) == total_revenue(pays) - total_costs(csts)

outstanding_balance(ords, pays) ==
    IF ~Empty(ords) THEN ColumnSum(ords, "total_fee") - total_revenue(pays) ELSE 0

-----------------------------------------------------------------------------
(* Reports of the Client Profile page *)

\* orders[orders["client_id"] == client_data["client_id"]]
client_orders_of(ords, client_id) ==
    SelectSeq(ords, LAMBDA r : r.client_id = client_id)

\* payments.merge(client_orders[["order_id"]], on="order_id", how="right"):
\* one row per payment on each of the client's orders, and a row with a NaN
\* amount_paid for an order without payments
client_payments(pays, client_orders) ==
    LET matches(o) == SelectSeq(pays, LAMBDA p : p.order_id = o.order_id)
        rowsFor(o) ==
            IF matches(o) = <<>>
            THEN << [payment_id |-> None, order_id |-> o.order_id, amount_paid |-> None] >>
            ELSE matches(o)
    IN  Flatten([i \in DOMAIN client_orders |-> rowsFor(client_orders[i])])

\* variant: the payments are not joined through the client's orders
total_spent_all_payments(pays, client_orders) ==
    IF ~Empty(pays) THEN ColumnSum(pays, "amount_paid") ELSE 0

\* client_payments["amount_paid"].sum() (NaN cells are skipped), 0 when empty
total_spent(pays, client_orders) ==
    LET cp == client_payments(pays, client_orders)
    IN  IF ~Empty(cp)
        THEN ColumnSum(SelectSeq(cp, LAMBDA r : r.amount_paid # None), "amount_paid")
        ELSE 0

\* client_orders["total_fee"].sum() - total_spent, 0 when the client has no orders
total_due(ords, pays, client_id) ==
    LET client_orders == client_orders_of(ords, client_id)
    IN  IF ~Empty(client_orders)
        THEN ColumnSum(client_orders, "total_fee") - total_spent(pays, client_orders)
        ELSE 0

-----------------------------------------------------------------------------
(* calculate_fee on enumerated inputs *)

FeeServices == {ServiceOptions[i] : i \in DOMAIN ServiceOptions} \cup
               {"WDF", "WDI", "Bedding Set", "Iron Only (shirts)",
                "Iron", "WD", "wdf", "Dry Clean", "Express WDF", ""}

FeeAmounts == (0..MaxAmount) \cup {None}

FeeInit ==
    /\ clients = <<>> /\ orders = <<>> /\ payments = <<>> /\ costs = <<>>
    /\ last = Ran("init_excel", None, "", NoneCut)
    /\ issued = NoSheets
    /\ service \in FeeServices /\ weight \in FeeAmounts /\ delivery \in FeeAmounts
    /\ total = None
    /\ this_date = 1 /\ today = 1 /\ color = ""
    /\ pc = NoRuns /\ page = NoPages

CalculateFee ==
    /\ total = None
    /\ total' = calculate_fee(service, weight, delivery)
    /\ UNCHANGED <<service, weight, delivery>>
    /\ UNCHANGED <<storeVars, calVars, runVars>>

FeeNext == CalculateFee

SpecFee == FeeInit /\ [][FeeNext]_vars

-----------------------------------------------------------------------------
(* Calendar page: colour of one day cell *)

Green  == "#4caf50"
Yellow == "#ffeb3b"
Red    == "#f44336"
Blue   == "#90caf9"
Gray   == "#eceff1"

\* variant: the overdue test comes before the in-progress test
day_color_overdue_first(ords, d, now) ==
    LET day_orders == SelectSeq(ords, LAMBDA r : r.due_date = d)
    IN  IF ~Empty(day_orders)
        THEN IF \A i \in DOMAIN day_orders : day_orders[i].status = "Completed"
             THEN Green
             ELSE IF d < now /\ (\E i \in DOMAIN day_orders : day_orders[i].status # "Completed")
             THEN Red
             ELSE IF \E i \in DOMAIN day_orders : day_orders[i].status \in {"Scheduled Pickup", "Processing"}
             THEN Yellow
             ELSE Blue
        ELSE Gray

day_color(ords, d, now) ==
    LET day_orders == SelectSeq(ords, LAMBDA r : r.due_date = d)
    IN  IF ~Empty(day_orders)
        THEN IF \A i \in DOMAIN day_orders : day_orders[i].status = "Completed"
             THEN Green
             ELSE IF \E i \in DOMAIN day_orders : day_orders[i].status \in {"Scheduled Pickup", "Processing"}
             THEN Yellow
             ELSE IF d < now /\ (\E i \in DOMAIN day_orders : day_orders[i].status # "Completed")
             THEN Red
             ELSE Blue
        ELSE Gray

Dates == 1..MaxDate

\* the orders sheets the calendar is shown for: 1..MaxCalOrders orders of one client
CalSheets ==
    UNION { [1..n -> Dates \X Statuses] : n \in 1..MaxCalOrders }

CalOrders(f) ==
    [i \in DOMAIN f |->
        [order_id |-> i, client_id |-> 1, service_type |-> ServiceOptions[1],
         weight_count |-> 10, due_date |-> f[i][1], status |-> f[i][2],
         delivery_fee |-> 0, total_fee |-> calculate_fee(ServiceOptions[1], 10, 0)]]

CalInit ==
    /\ clients = << [client_id |-> 1, full_name |-> "Ama"] >>
    /\ \E f \in CalSheets : orders = CalOrders(f)
    /\ payments = <<>> /\ costs = <<>>
    /\ last = Ran("init_excel", None, "", NoneCut)
    /\ issued = [NoSheets EXCEPT !.clients = <<1>>, !.orders = [i \in DOMAIN orders |-> i]]
    /\ service = "" /\ weight = None /\ delivery = None /\ total = None
    /\ this_date \in Dates /\ today \in Dates /\ color = ""
    /\ pc = NoRuns /\ page = NoPages

CalendarCell ==
    /\ color = ""
    /\ ~Empty(orders) /\ ~Empty(clients)
    /\ color' = day_color(orders, this_date, today)
    /\ UNCHANGED <<this_date, today>>
    /\ UNCHANGED <<storeVars, feeVars, runVars>>

CalNext == CalendarCell

SpecCal == CalInit /\ [][CalNext]_vars

-----------------------------------------------------------------------------
(* Delete Client, save by save *)

\* variant: the three sheets are written together
delete_client_first_save_all(st, client_id) ==
    [st EXCEPT !.clients  = delete_client_clients(st.clients, client_id),
               !.orders   = delete_client_orders(st.orders, client_id),
               !.payments = delete_client_payments(st.orders, st.payments, client_id)]

\* the workbook after save_data("clients", df): only the clients sheet is replaced
delete_client_first_save(st, client_id) ==
    [st EXCEPT !.clients = delete_client_clients(st.clients, client_id)]

\* "Delete Client" up to save_data("clients", df)
DeleteClientSaveClients(s, client_to_delete) ==
    /\ pc[s] = "idle"
    /\ ~Empty(clients)
    /\ client_to_delete \in ColumnSet(clients, "full_name")
    /\ LET client_id == FirstWith(clients, "full_name", client_to_delete, "client_id")
           after     == delete_client_first_save(Store, client_id)
       IN  /\ clients' = after.clients
           /\ orders' = after.orders
           /\ payments' = after.payments
           /\ page' = [page EXCEPT ![s] = [NoPage EXCEPT !.client_id = client_id]]
           /\ last' = Ran("DeleteClient: clients saved", client_id, client_to_delete,
                          [clients  |-> Len(clients) - Len(clients'),
                           orders   |-> Len(orders) - Len(orders'),
                           payments |-> Len(payments) - Len(payments')])
    /\ pc' = [pc EXCEPT ![s] = "clients saved"]
    /\ UNCHANGED <<costs, issued>>
    /\ UNCHANGED <<feeVars, calVars>>

\* "Delete Client" from load_data("orders") to save_data("orders", orders); the
\* run ends here when there is no payment to remove
DeleteClientSaveOrders(s) ==
    /\ pc[s] = "clients saved"
    /\ LET client_id     == page[s].client_id
           client_orders == SelectSeq(orders, LAMBDA r : r.client_id = client_id)
           more          == ~Empty(orders) /\ ~Empty(payments) /\ ~Empty(client_orders)
       IN  /\ orders' = delete_client_orders(orders, client_id)
           /\ pc' = [pc EXCEPT ![s] = IF more THEN "orders saved" ELSE "idle"]
           /\ page' = [page EXCEPT ![s] =
                         IF more
                         THEN [@ EXCEPT !.orders = orders, !.payments = payments]
                         ELSE NoPage]
           /\ last' = Ran(IF more THEN "DeleteClient: orders saved" ELSE "DeleteClient",
                          client_id, "",
                          [clients |-> 0, orders |-> Len(orders) - Len(orders'), payments |-> 0])
    /\ UNCHANGED <<clients, payments, costs, issued>>
    /\ UNCHANGED <<feeVars, calVars>>

\* "Delete Client" from the payments filter to save_data("payments", payments)
DeleteClientSavePayments(s) ==
    /\ pc[s] = "orders saved"
    /\ LET client_id == page[s].client_id
       IN  /\ payments' = delete_client_payments(page[s].orders, page[s].payments, client_id)
           /\ last' = Ran("DeleteClient", client_id, "",
                          [clients |-> 0, orders |-> 0,
                           payments |-> Len(payments) - Len(payments')])
    /\ pc' = [pc EXCEPT ![s] = "idle"]
    /\ page' = [page EXCEPT ![s] = NoPage]
    /\ UNCHANGED <<clients, orders, costs, issued>>
    /\ UNCHANGED <<feeVars, calVars>>

\* the script run stops between two saves (the server process is stopped, or
\* save_data raises because the workbook cannot be written): what was saved stays
Interrupt(s) ==
    /\ pc[s] # "idle"
    /\ last' = Ran("interrupted", page[s].client_id, pc[s], NoneCut)
    /\ pc' = [pc EXCEPT ![s] = "idle"]
    /\ page' = [page EXCEPT ![s] = NoPage]
    /\ UNCHANGED <<clients, orders, payments, costs, issued>>
    /\ UNCHANGED <<feeVars, calVars>>

SavesNext ==
    \/ pc["A"] = "idle" /\ \E name \in Names : AddClient(name)
    \/ pc["A"] = "idle" /\
         \E client \in Names \cup {NaN}, svc \in OrderServices, w \in OrderWeights,
            due \in OrderDues, d \in OrderFees, status \in OrderStatuses :
              AddOrder(client, svc, w, due, d, status)
    \/ pc["A"] = "idle" /\
         \E o \in (1..MaxAdds) \cup {None}, amt \in PaidAmounts : AddPayment(o, amt)
    \/ \E name \in Names : DeleteClientSaveClients("A", name)
    \/ DeleteClientSaveOrders("A")
    \/ DeleteClientSavePayments("A")
    \/ Interrupt("A")

SpecSaves == Init /\ [][SavesNext]_vars

-----------------------------------------------------------------------------
(* The Orders page in two sessions: page load and handler are separate steps *)

\* variant: the handler loads the orders sheet again before it changes it
handler_orders_reloaded(loaded, persisted) == persisted

\* the `orders` table a handler of the Orders page works on: the one the page
\* loaded at its start; the handlers do not load it again
handler_orders(loaded, persisted) == loaded

\* the workbook when the two sessions start: one client was added
SessionsInit ==
    /\ clients = << [client_id |-> 1, full_name |-> "Ama"] >>
    /\ orders = <<>> /\ payments = <<>> /\ costs = <<>>
    /\ last = Ran("AddClient", 1, "Ama", NoneCut)
    /\ issued = [NoSheets EXCEPT !.clients = <<1>>]
    /\ service = "" /\ weight = None /\ delivery = None /\ total = None
    /\ this_date = 1 /\ today = 1 /\ color = ""
    /\ pc = NoRuns /\ page = NoPages

SessionAdded == Len(issued.orders)

\* clients = load_data("clients"); orders = load_data("orders")
LoadOrdersPage(s) ==
    /\ pc[s] = "idle"
    /\ pc' = [pc EXCEPT ![s] = "orders page"]
    /\ page' = [page EXCEPT ![s] = [NoPage EXCEPT !.clients = clients, !.orders = orders]]
    /\ UNCHANGED <<clients, orders, payments, costs, last, issued>>
    /\ UNCHANGED <<feeVars, calVars>>

\* form add_order: the ids come from the loaded tables, add_row loads the
\* sheet again, appends and saves
SubmitAddOrder(s, client, svc, w, due, d, status) ==
    /\ pc[s] = "orders page"
    /\ SessionAdded < MaxSessionAdds
    /\ client \in (IF ~Empty(page[s].clients)
                   THEN ColumnSet(page[s].clients, "full_name") ELSE {NaN})
    /\ IF Empty(page[s].clients)
       THEN /\ last' = Ran("AddOrder: no clients", None, "", NoneCut)
            /\ UNCHANGED <<orders, issued>>
       ELSE LET cid == FirstWith(page[s].clients, "full_name", client, "client_id")
                oid == next_id(page[s].orders, "order_id")
            IN  /\ orders' = add_row(orders,
                       [order_id |-> oid, client_id |-> cid, service_type |-> svc,
                        weight_count |-> w, due_date |-> due, status |-> status,
                        delivery_fee |-> d, total_fee |-> calculate_fee(svc, w, d)])
                /\ issued' = [issued EXCEPT !.orders = Append(@, oid)]
                /\ last' = Ran("AddOrder", oid, client, NoneCut)
    /\ pc' = [pc EXCEPT ![s] = "idle"]
    /\ page' = [page EXCEPT ![s] = NoPage]
    /\ UNCHANGED <<clients, payments, costs>>
    /\ UNCHANGED <<feeVars, calVars>>

\* button "Update Status"
ClickUpdateStatus(s, selected_order_id, new_status) ==
    /\ pc[s] = "orders page"
    /\ ~Empty(page[s].orders) /\ ~Empty(page[s].clients)
    /\ selected_order_id \in pickable_orders(page[s].orders, page[s].clients)
    /\ orders' = update_status(handler_orders(page[s].orders, orders),
                               selected_order_id, new_status)
    /\ last' = Ran("UpdateStatus", selected_order_id, new_status,
                   [clients |-> 0, orders |-> Len(orders) - Len(orders'), payments |-> 0])
    /\ pc' = [pc EXCEPT ![s] = "idle"]
    /\ page' = [page EXCEPT ![s] = NoPage]
    /\ UNCHANGED <<clients, payments, costs, issued>>
    /\ UNCHANGED <<feeVars, calVars>>

\* button "Delete Selected Order": the loaded orders without the order are
\* saved, then the payments sheet is loaded, filtered and saved
ClickDeleteOrder(s, del_order_id) ==
    /\ pc[s] = "orders page"
    /\ ~Empty(page[s].orders) /\ ~Empty(page[s].clients)
    /\ del_order_id \in pickable_orders(page[s].orders, page[s].clients)
    /\ orders' = delete_order_orders(handler_orders(page[s].orders, orders), del_order_id)
    /\ payments' = delete_order_payments(payments, del_order_id)
    /\ last' = Ran("DeleteOrder", del_order_id, "",
                   [clients |-> 0, orders |-> Len(orders) - Len(orders'),
                    payments |-> Len(payments) - Len(payments')])
    /\ pc' = [pc EXCEPT ![s] = "idle"]
    /\ page' = [page EXCEPT ![s] = NoPage]
    /\ UNCHANGED <<clients, costs, issued>>
    /\ UNCHANGED <<feeVars, calVars>>

SessionsNext ==
    \/ \E s \in Sessions : LoadOrdersPage(s)
    \/ \E s \in Sessions, client \in Names \cup {NaN}, svc \in OrderServices,
          w \in OrderWeights, due \in OrderDues, d \in OrderFees, status \in OrderStatuses :
            SubmitAddOrder(s, client, svc, w, due, d, status)
    \/ \E s \in Sessions, o \in 1..MaxSessionAdds, st \in NewStatuses :
            ClickUpdateStatus(s, o, st)
    \/ \E s \in Sessions, o \in 1..MaxSessionAdds : ClickDeleteOrder(s, o)

SpecSessions == SessionsInit /\ [][SessionsNext]_vars

-----------------------------------------------------------------------------
(* Properties *)

Rows(df) == {df[i] : i \in DOMAIN df}

\* the rows of df2 are exactly the rows `kept` of df, none duplicated or dropped
KeptExactly(df, df2, kept) ==
    /\ kept \subseteq Rows(df)
    /\ Rows(df2) = kept
    /\ Len(df2) = Cardinality({i \in DOMAIN df : df[i] \in kept})

\* C1: a Delete Client run for client C leaves no client row and no order row
\* with client_id = C and no payment row on an order that belonged to C, and
\* keeps every other client, order, payment and cost row as it was.
C1_DeleteClientCascade ==
    [][last'.op = "DeleteClient" =>
        LET C    == last'.id
            gone == {r.order_id : r \in {x \in Rows(orders) : x.client_id = C}}
        IN  /\ \A r \in Rows(clients') : r.client_id # C
            /\ \A r \in Rows(orders') : r.client_id # C
            /\ \A r \in Rows(payments') : r.order_id \notin gone
            /\ KeptExactly(clients, clients', {r \in Rows(clients) : r.client_id # C})
            /\ KeptExactly(orders, orders', {r \in Rows(orders) : r.client_id # C})
            /\ KeptExactly(payments, payments', {r \in Rows(payments) : r.order_id \notin gone})
            /\ costs' = costs]_vars

\* a Delete Client run that removed an order and a payment on it, while another
\* client and an order of that other client stayed
C1_Witness ==
    /\ last.op = "DeleteClient"
    /\ last.cut.clients = 1 /\ last.cut.orders >= 1 /\ last.cut.payments >= 1
    /\ clients # <<>> /\ orders # <<>>

\* C2: a Delete Selected Order run for order O removes O and exactly the
\* payments with order_id = O; all other orders and payments, and all clients
\* and costs, stay as they were.
C2_DeleteOrderCascade ==
    [][last'.op = "DeleteOrder" =>
        LET O == last'.id
        IN  /\ KeptExactly(orders, orders', {r \in Rows(orders) : r.order_id # O})
            /\ KeptExactly(payments, payments', {r \in Rows(payments) : r.order_id # O})
            /\ Len(orders') = Len(orders) - 1
            /\ clients' = clients
            /\ costs' = costs]_vars

\* a Delete Selected Order run that removed a payment with the order and left
\* a sibling order of the same (only) client and a payment in place
C2_Witness ==
    /\ last.op = "DeleteOrder"
    /\ last.cut.orders = 1 /\ last.cut.payments >= 1
    /\ Len(clients) = 1 /\ orders # <<>> /\ payments # <<>>
    /\ \A i \in DOMAIN payments : payments[i].order_id \in ColumnSet(orders, "order_id")


Sheets == {"clients", "orders", "payments", "costs"}

IdColumn == [clients |-> "client_id", orders |-> "order_id",
             payments |-> "payment_id", costs |-> "expense_id"]

AddOps == [clients |-> "AddClient", orders |-> "AddOrder",
           payments |-> "AddPayment", costs |-> "AddCost"]

\* C3 as stated: in every sheet, no id is handed out twice and the ids handed
\* out to successively added rows never decrease.
C3_IdsNeverReused ==
    \A k \in Sheets :
        \A i, j \in DOMAIN issued[k] :
            i < j => issued[k][i] # issued[k][j] /\ issued[k][i] <= issued[k][j]

\* C3 amended: the id given to an added row is 1 on an empty sheet and otherwise
\* one more than the largest id present, so it is larger than, and different
\* from, the id of every row then in the sheet.
C3_NewIdAboveCurrent ==
    [][\A k \in Sheets :
        last'.op = AddOps[k] =>
            LET old == ColumnSet(Store[k], IdColumn[k])
                new == last'.id
            IN  /\ new = issued'[k][Len(issued'[k])]
                /\ \A x \in old : x < new
                /\ old = {} => new = 1
                /\ old # {} => new - 1 \in old]_vars

\* an add that handed out again an id handed out before, the row that first had
\* it having been deleted, next to a row that was never deleted
C3_Witness ==
    \E k \in Sheets :
        /\ last.op = AddOps[k]
        /\ Len(issued[k]) >= 3
        /\ \E i \in 1..(Len(issued[k]) - 1) : issued[k][i] = last.id
        /\ Len(Store[k]) >= 2

\* C4: in every reachable state no two rows of one sheet have the same id.
C4_IdsUnique ==
    \A k \in Sheets :
        \A i, j \in DOMAIN Store[k] :
            i # j => Store[k][i][IdColumn[k]] # Store[k][j][IdColumn[k]]

\* two rows in a sheet after an id of that sheet was handed out a second time
C4_Witness ==
    \E k \in Sheets :
        /\ Len(Store[k]) >= 2
        /\ \E i, j \in DOMAIN issued[k] : i < j /\ issued[k][i] = issued[k][j]

\* C5 as stated: the row an Add Payment run creates has the order_id of an
\* order that is in the orders sheet.
C5_PaymentReferencesOrder ==
    last.op = "AddPayment" =>
        \A i \in DOMAIN payments :
            payments[i].payment_id = last.id =>
                payments[i].order_id \in ColumnSet(orders, "order_id")

\* C6: an Update Status run for order O changes the status of O and nothing
\* else: the other columns of O, the other orders, and the clients, payments
\* and costs sheets stay as they were.
C6_UpdateStatusFrame ==
    [][last'.op = "UpdateStatus" =>
        LET O == last'.id
        IN  /\ DOMAIN orders' = DOMAIN orders
            /\ \A i \in DOMAIN orders :
                  IF orders[i].order_id = O
                  THEN /\ orders'[i] = [orders[i] EXCEPT !.status = last'.val]
                       /\ orders'[i].total_fee = orders[i].total_fee
                  ELSE orders'[i] = orders[i]
            /\ clients' = clients
            /\ payments' = payments
            /\ costs' = costs]_vars

\* an Update Status run that set one order to Completed (orders are entered as
\* Processing here) while another order stayed Processing
C6_Witness ==
    /\ last.op = "UpdateStatus" /\ last.val = "Completed"
    /\ \E i, j \in DOMAIN orders :
          /\ orders[i].order_id = last.id /\ orders[i].status = "Completed"
          /\ orders[j].order_id # last.id /\ orders[j].status = "Processing"

\* C7: a Delete Payment run for payment P removes the row with payment_id = P
\* and no other; clients, orders and costs stay as they were; and filtering
\* out an id no payment has leaves the payments sheet as it was.
C7_DeletePaymentFrame ==
    [][/\ last'.op = "DeletePayment" =>
            LET P == last'.id
            IN  /\ KeptExactly(payments, payments', {r \in Rows(payments) : r.payment_id # P})
                /\ Len(payments') = Len(payments) - 1
                /\ clients' = clients
                /\ orders' = orders
                /\ costs' = costs
       /\ \A P \in (1..(MaxAdds + 1)) \ ColumnSet(payments', "payment_id") :
            delete_payment(payments', P) = payments']_vars

\* a Delete Payment run that left another payment of the same order in place
C7_Witness ==
    /\ last.op = "DeletePayment" /\ last.cut.payments = 1
    /\ payments # <<>> /\ orders # <<>>
    /\ \E i \in DOMAIN payments : payments[i].order_id \in ColumnSet(orders, "order_id")


\* the rate the fee table promises for each service of FeeServices
ExpectedRate(svc) ==
    CASE svc \in {"WDF (Wash, Dry, Fold)", "WDF"}      -> 500
      [] svc \in {"WDI (Wash, Dry, Iron)", "WDI"}      -> 700
      [] svc \in {"Iron Only", "Iron Only (shirts)"}   -> 200
      [] svc \in {"Bedding", "Bedding Set"}            -> 1200
      [] OTHER                                         -> 500

\* C8: calculate_fee(s, w, d) = rate(s) * w + d with an absent w or d counted
\* as 0, the rate chosen by the prefix of s (500 when no prefix matches), and
\* the result is never negative.
C8_FeeFormula ==
    total # None =>
        LET w == IF weight = None THEN 0 ELSE weight
            d == IF delivery = None THEN 0 ELSE delivery
        IN  /\ total = ExpectedRate(service) * w + d
            /\ total >= 0

\* a fee computed for a service with a suffix after the prefix, and one for a
\* service no prefix matches with the delivery fee absent
C8_Witness ==
    \/ service = "Iron Only (shirts)" /\ weight = 2 /\ delivery = 1 /\ total = 401
    \/ service = "Express WDF" /\ weight = 2 /\ delivery = None /\ total = 1000

\* the statuses of the orders due on the cell's date
DayStatuses == {orders[i].status : i \in {j \in DOMAIN orders : orders[j].due_date = this_date}}

\* C9: the cell colour follows the strict priority: no orders -> neutral; all
\* Completed -> done; else any Scheduled Pickup or Processing -> in-progress,
\* also in the past; else a past date -> overdue; else -> scheduled.
C9_ColorPriority ==
    color # "" =>
        LET S        == DayStatuses
            active   == S \cap {"Scheduled Pickup", "Processing"}
            past     == this_date < today
        IN  /\ S = {} => color = Gray
            /\ S # {} /\ S \subseteq {"Completed"} => color = Green
            /\ ~(S \subseteq {"Completed"}) /\ active # {} => color = Yellow
            /\ ~(S \subseteq {"Completed"}) /\ active = {} /\ past => color = Red
            /\ ~(S \subseteq {"Completed"}) /\ active = {} /\ ~past => color = Blue
            /\ S = {"Processing", "Completed"} => color = Yellow
            /\ S = {"Ready"} /\ past => color = Red

\* a past date with a Processing order next to a Ready one, coloured in-progress
C9_Witness ==
    /\ color = Yellow
    /\ this_date < today
    /\ {"Processing", "Ready"} \subseteq DayStatuses

\* sum of a column, row by row
RECURSIVE Sigma(_, _, _)
Sigma(df, col, n) == IF n = 0 THEN 0 ELSE df[n][col] + Sigma(df, col, n - 1)

\* C10 as stated: the Overview's outstanding balance is the sum of total_fee
\* over all orders minus the sum of amount_paid over all payments, and its
\* total profit is that sum of amount_paid minus the sum of the costs' amount.
C10_OverviewTotals ==
    LET fees == Sigma(orders, "total_fee", Len(orders))
        paid == Sigma(payments, "amount_paid", Len(payments))
        cost == Sigma(costs, "amount", Len(costs))
    IN  /\ outstanding_balance(orders, payments) = fees - paid
        /\ total_profit(payments, costs) = paid - cost


\* sum of a column over the rows at the indices idx
RECURSIVE SigmaOver(_, _, _)
SigmaOver(df, col, idx) ==
    IF idx = {} THEN 0
    ELSE LET i == CHOOSE x \in idx : TRUE
         IN  df[i][col] + SigmaOver(df, col, idx \ {i})

\* C11: the outstanding balance the Client Profile shows for a client is the
\* sum of total_fee over the client's orders minus the sum of amount_paid over
\* the payments on those orders.  With one client whose only order has
\* total_fee 5000 and one payment of 2000 the balance is 3000, and deleting
\* that order removes the payment and leaves the balance 0.
C11_ClientBalance ==
    [][/\ \A c \in ColumnSet(clients', "client_id") :
             LET mine == {i \in DOMAIN orders' : orders'[i].client_id = c}
                 paid == {j \in DOMAIN payments' :
                             payments'[j].order_id \in {orders'[i].order_id : i \in mine}}
             IN  total_due(orders', payments', c) =
                     SigmaOver(orders', "total_fee", mine)
                       - SigmaOver(payments', "amount_paid", paid)
       /\ ( /\ Len(clients) = 1 /\ Len(orders) = 1 /\ Len(payments) = 1
            /\ orders[1].client_id = clients[1].client_id
            /\ orders[1].total_fee = 5000
            /\ payments[1].order_id = orders[1].order_id
            /\ payments[1].amount_paid = 2000 )
          => /\ total_due(orders, payments, clients[1].client_id) = 3000
             /\ last'.op = "DeleteOrder" =>
                   /\ payments' = <<>>
                   /\ total_due(orders', payments', clients[1].client_id) = 0]_vars

\* the end of the scenario: the only order of the only client was deleted
\* together with its payment, and the client's balance is 0
C11_Witness ==
    /\ last.op = "DeleteOrder" /\ last.cut.orders = 1 /\ last.cut.payments = 1
    /\ Len(clients) = 1 /\ clients[1].full_name = "Ama" /\ clients[1].client_id = 1
    /\ orders = <<>> /\ payments = <<>>
    /\ total_due(orders, payments, 1) = 0


\* C14: in every state reached by completed runs, every order's client_id is
\* the client_id of a client in the clients sheet, also after the id of a
\* deleted client was given to a new client.
C14_OrdersHaveClient ==
    \A i \in DOMAIN orders :
        orders[i].client_id \in ColumnSet(clients, "client_id")

\* an order of a client whose id had been handed out before to a client that
\* was deleted
C14_Witness ==
    \E i \in DOMAIN orders :
        \E j, k \in DOMAIN issued.clients :
            /\ j < k
            /\ issued.clients[j] = orders[i].client_id
            /\ issued.clients[k] = orders[i].client_id


\* C12: Delete Client saves clients, then orders, then payments, each save
\* replacing one sheet only; a run cut short after the clients save leaves
\* every order of the deleted client in place without its client, and a run
\* cut short after the orders save leaves the payments on the removed orders
\* in place without their orders.
C12_SavesInOrder ==
    [][/\ (pc["A"] = "idle" /\ pc'["A"] = "clients saved") =>
             /\ page'["A"].client_id \notin ColumnSet(clients', "client_id")
             /\ orders' = orders
             /\ payments' = payments
       /\ (pc["A"] = "clients saved" /\ last'.op # "interrupted") =>
             /\ clients' = clients
             /\ payments' = payments
             /\ \A r \in Rows(orders') : r.client_id # page["A"].client_id
             /\ pc'["A"] \in {"orders saved", "idle"}
       /\ (pc["A"] = "orders saved" /\ last'.op # "interrupted") =>
             /\ clients' = clients
             /\ orders' = orders
             /\ \A p \in Rows(payments') :
                   p.order_id \notin {r.order_id : r \in {x \in Rows(page["A"].orders) :
                                                        x.client_id = page["A"].client_id}}
             /\ pc'["A"] = "idle"
       /\ last'.op = "interrupted" =>
             /\ clients' = clients /\ orders' = orders /\ payments' = payments
             /\ last'.val = "clients saved" =>
                   /\ last'.id \notin ColumnSet(clients', "client_id")
                   /\ \A r \in Rows(orders) : r \in Rows(orders')
             /\ last'.val = "orders saved" =>
                   \A p \in Rows(page["A"].payments) :
                       p.order_id \in {r.order_id : r \in {x \in Rows(page["A"].orders) :
                                                          x.client_id = last'.id}}
                       => /\ p \in Rows(payments')
                          /\ p.order_id \notin ColumnSet(orders', "order_id")]_vars

\* a run cut short after the clients save: an order of the deleted client and
\* a payment on that order are still in the workbook, the client is not
C12_Witness ==
    /\ last.op = "interrupted" /\ last.val = "clients saved"
    /\ last.id \notin ColumnSet(clients, "client_id")
    /\ \E i \in DOMAIN orders :
          /\ orders[i].client_id = last.id
          /\ \E j \in DOMAIN payments : payments[j].order_id = orders[i].order_id

\* C13: when a session saves the orders from the Update Status or the Delete
\* Selected Order handler, the persisted orders are the table the session
\* loaded at page start with only its own change applied, whatever another
\* session saved in between: rows saved since the load are gone, the run
\* ends normally.
C13_LastSaveWins ==
    [][\A s \in Sessions :
          (pc[s] = "orders page" /\ pc'[s] = "idle") =>
             LET loaded == page[s].orders IN
             /\ last'.op = "UpdateStatus" =>
                   /\ Len(orders') = Len(loaded)
                   /\ \A i \in DOMAIN loaded :
                         /\ [orders'[i] EXCEPT !.status = ""] = [loaded[i] EXCEPT !.status = ""]
                         /\ orders'[i].status =
                               IF loaded[i].order_id = last'.id THEN last'.val
                               ELSE loaded[i].status
                   /\ last'.cut.orders = Len(orders) - Len(loaded)
             /\ last'.op = "DeleteOrder" =>
                   /\ KeptExactly(loaded, orders',
                                  {r \in Rows(loaded) : r.order_id # last'.id})
                   /\ \A r \in Rows(orders) \ Rows(loaded) : r \notin Rows(orders')
    ]_vars

\* an Update Status save has just dropped an order that the other session
\* added after this session's page load
C13_Witness ==
    /\ last.op = "UpdateStatus" /\ last.cut.orders >= 1
    /\ \E id \in Rows(issued.orders) : id \notin ColumnSet(orders, "order_id")

====
